---- MODULE Spec2Model ----
(***************************************************************************)
(* Model of the rule "enforces-shorthand" (lib/rules/enforces-shorthand.js) *)
(* One source location (attribute value, literal argument or template      *)
(* element) is analysed by parseForShorthandCandidates: the class list is  *)
(* grouped by family and by (variants, value), every candidate set is      *)
(* resolved to the best shorthand, the text is reassembled and the         *)
(* findings are reported with their fix.                                   *)
(*                                                                         *)
(* Strings are TLA+ strings; descriptors are records; the descriptor       *)
(* objects of one run live in objects    and are referred to by their       *)
(* position (JavaScript object identity), so that the in-place mutation    *)
(* of a representative is visible through every reference to it.           *)
(***************************************************************************)
EXTENDS Integers, Sequences, FiniteSets, TLC

\* Longest class list (tokens of one source location) that is explored.
MaxLen == 4

NULL == "<null>"

----------------------------------------------------------------------------
(* Generic helpers standing for JavaScript built-ins *)

\* Array.prototype.includes on a sequence
Includes(seq, x) == \E k \in 1..Len(seq) : seq[k] = x

RECURSIVE Filter(_, _)
\* Array.prototype.filter, keep: the set of elements that pass the test
Filter(seq, keep) ==
  IF seq = <<>> THEN <<>>
  ELSE IF Head(seq) \in keep THEN <<Head(seq)>> \o Filter(Tail(seq), keep)
       ELSE Filter(Tail(seq), keep)

RECURSIVE Join(_, _)
\* Array.prototype.join
Join(seq, sep) ==
  IF seq = <<>> THEN ""
  ELSE IF Len(seq) = 1 THEN seq[1]
       ELSE seq[1] \o sep \o Join(Tail(seq), sep)

WhiteSpace == {" ", "\n", "\t"}

RECURSIVE TrimStart(_)
TrimStart(s) ==
  IF Len(s) = 0 THEN s
  ELSE IF SubSeq(s, 1, 1) \in WhiteSpace THEN TrimStart(SubSeq(s, 2, Len(s)))
       ELSE s

RECURSIVE TrimEnd(_)
TrimEnd(s) ==
  IF Len(s) = 0 THEN s
  ELSE IF SubSeq(s, Len(s), Len(s)) \in WhiteSpace THEN TrimEnd(SubSeq(s, 1, Len(s) - 1))
       ELSE s

\* String.prototype.trim
Trim(s) == TrimEnd(TrimStart(s))

\* /^(\s)*$/.test(s)
SpacesOnly(s) == Trim(s) = ""

----------------------------------------------------------------------------
(* Taxonomy *)

\* The default taxonomy (config/groups): groups, their members (families) and
\* per family the directional entries with their class body.
defaultGroups ==
  << [type |-> "Spacing",
      members |-> <<
        [type |-> "Margin",
         members |-> << [shorthand |-> "all", body |-> "m"],
                        [shorthand |-> "y", body |-> "my"],
                        [shorthand |-> "x", body |-> "mx"],
                        [shorthand |-> "t", body |-> "mt"],
                        [shorthand |-> "r", body |-> "mr"],
                        [shorthand |-> "b", body |-> "mb"],
                        [shorthand |-> "l", body |-> "ml"] >>],
        [type |-> "Space Between",
         members |-> << [shorthand |-> "x", body |-> "space-x"],
                        [shorthand |-> "y", body |-> "space-y"] >>] >>],
     [type |-> "Borders",
      members |-> <<
        [type |-> "Border Radius",
         members |-> << [shorthand |-> "all", body |-> "rounded"],
                        [shorthand |-> "t", body |-> "rounded-t"],
                        [shorthand |-> "r", body |-> "rounded-r"],
                        [shorthand |-> "b", body |-> "rounded-b"],
                        [shorthand |-> "l", body |-> "rounded-l"],
                        [shorthand |-> "tl", body |-> "rounded-tl"],
                        [shorthand |-> "tr", body |-> "rounded-tr"],
                        [shorthand |-> "br", body |-> "rounded-br"],
                        [shorthand |-> "bl", body |-> "rounded-bl"] >>] >>],
     [type |-> "Typography",
      members |-> <<
        [type |-> "Font Size",
         members |-> << [shorthand |-> "all", body |-> "text"] >>] >>] >>

\* The families of each group that can be collapsed.
targetProperties ==
  [g \in {"Layout", "Flexbox & Grid", "Spacing", "Borders", "Transforms"} |->
     CASE g = "Layout" -> {"Overflow", "Overscroll Behavior", "Top / Right / Bottom / Left"}
       [] g = "Flexbox & Grid" -> {"Gap"}
       [] g = "Spacing" -> {"Padding", "Margin"}
       [] g = "Borders" -> {"Border Radius", "Border Width", "Border Color"}
       [] g = "Transforms" -> {"Scale"}]

RECURSIVE FilterMembers(_, _)
\* g.members.filter((sub) => targetProperties[g.type].includes(sub.type))
FilterMembers(members, allowed) ==
  IF members = <<>> THEN <<>>
  ELSE IF Head(members).type \in allowed
       THEN <<Head(members)>> \o FilterMembers(Tail(members), allowed)
       ELSE FilterMembers(Tail(members), allowed)

RECURSIVE FilterGroups(_)
\* cloned.filter(...) followed by the members filter of every kept group
FilterGroups(groups) ==
  IF groups = <<>> THEN <<>>
  ELSE IF Head(groups).type \in DOMAIN targetProperties
       THEN << [type |-> Head(groups).type,
                members |-> FilterMembers(Head(groups).members,
                                          targetProperties[Head(groups).type])] >>
            \o FilterGroups(Tail(groups))
       ELSE FilterGroups(Tail(groups))

targetGroups == FilterGroups(defaultGroups)

\* Array.prototype.find: the first position among those that pass the test,
\* 0 when none does
FindIndex(hits) ==
  IF hits = {} THEN 0 ELSE CHOOSE k \in hits : \A j \in hits : k <= j

getBodyByShorthand(groups, parentType, shorthand) ==
  LET gi == FindIndex({g \in 1..Len(groups) :
                         \E k \in 1..Len(groups[g].members) :
                            groups[g].members[k].type = parentType})
  IN IF gi = 0 THEN ""
     ELSE LET types == groups[gi].members
              ti == FindIndex({k \in 1..Len(types) : types[k].type = parentType})
          IN IF ti = 0 THEN ""
             ELSE LET codes == types[ti].members
                      ci == FindIndex({k \in 1..Len(codes) : codes[k].shorthand = shorthand})
                  IN IF ci = 0 THEN "" ELSE codes[ci].body

----------------------------------------------------------------------------
(* Class tokens and descriptors *)

\* A class token as the extractor yields it, together with what the class
\* name parser makes of it: raw = leading + name + trailing.
TokenRaw(tok) == tok.leading \o tok.name \o tok.trailing

\* groupUtil.parseClassname(className, targetGroups, mergedConfig, index)
parseClassname(tok, index) ==
  [name |-> tok.name, leading |-> tok.leading, trailing |-> tok.trailing,
   parentType |-> tok.parentType, shorthand |-> tok.shorthand,
   value |-> tok.value, variants |-> tok.variants, index |-> index]

----------------------------------------------------------------------------
(* Merge pass: lines 191-295 *)

\* sameVariantAndValue.some((c) => codes.includes(c.shorthand))
SomeCode(objects, set, codes) ==
  \E k \in 1..Len(set) : objects[set[k]].shorthand \in codes

\* The direction flags of one candidate set
Flags(objects, set, supportCorners) ==
  LET hasTL == supportCorners /\ SomeCode(objects, set, {"tl", "t", "all"})
      hasTR == supportCorners /\ SomeCode(objects, set, {"tr", "t", "all"})
      hasBR == supportCorners /\ SomeCode(objects, set, {"br", "b", "all"})
      hasBL == supportCorners /\ SomeCode(objects, set, {"bl", "b", "all"})
      hasT == SomeCode(objects, set, {"t"}) \/ (hasTL /\ hasTR)
      hasR == SomeCode(objects, set, {"r"}) \/ (hasTR /\ hasBR)
      hasB == SomeCode(objects, set, {"b"}) \/ (hasBL /\ hasBR)
      hasL == SomeCode(objects, set, {"l"}) \/ (hasTL /\ hasBL)
      hasX == SomeCode(objects, set, {"x"}) \/ (hasL /\ hasR)
      hasY == SomeCode(objects, set, {"y"}) \/ (hasT /\ hasB)
      hasAll == SomeCode(objects, set, {"all"}) \/ (hasY /\ hasX)
  IN [T |-> hasT, R |-> hasR, B |-> hasB, L |-> hasL,
      X |-> hasX, Y |-> hasY, All |-> hasAll]

\* `${cls.variants}${minus}${body}${absoluteVal.length ? '-' + absoluteVal : ''}`
PatchedName(cls, body) ==
  LET val == cls.value
      isNegative == (IF Len(val) = 0 THEN "" ELSE SubSeq(val, 1, 1)) = "-"
      minus == IF isNegative THEN "-" ELSE ""
      absoluteVal == IF isNegative THEN SubSeq(val, 2, Len(val)) ELSE val
  IN cls.variants \o minus \o body
       \o (IF Len(absoluteVal) > 0 THEN "-" \o absoluteVal ELSE "")

\* indices (in order) of the members of `set` whose shorthand is in `codes`
ByCode(objects, set, codes) ==
  Filter(set, {i \in 1..Len(objects) : objects[i].shorthand \in codes})

\* Mutation: the candidate set is keyed by the value alone.
SameValueOnly(objects, sameType, cls) ==
  Filter(sameType, {i \in 1..Len(objects) : objects[i].value = objects[cls].value})

\* sameType.filter((v) => v.variants === cls.variants && v.value === cls.value)
SameVariantAndValue(objects, sameType, cls) ==
  Filter(sameType, {i \in 1..Len(objects) :
                       /\ objects[i].variants = objects[cls].variants
                       /\ objects[i].value = objects[cls].value})

\* troubles.push([toBeReplaced, patchedName]); cls.name = patchedName;
\* cls.shorthand = code; validated.push(cls); validated.push(...toBeKept)
\* from and rep record which objects the pushed names were read from.
Merge(st, cls, replaced, kept, code, patchedName) ==
  [st EXCEPT
     !.troubles = Append(@, [names |-> [k \in 1..Len(replaced) |-> st.objects[replaced[k]].name],
                             shorthand |-> patchedName,
                             from |-> replaced,
                             rep |-> cls]),
     !.objects = [@ EXCEPT ![cls] = [@ EXCEPT !.name = patchedName, !.shorthand = code]],
     !.validated = (@ \o <<cls>>) \o kept]

\* Body of sameType.forEach for a key not seen before: lines 207-291
Resolve(st, sameType, cls, parentType) ==
  LET o == st.objects
      set == SameVariantAndValue(o, sameType, cls)
      supportCorners == parentType \in {"Border Radius"}
      f == Flags(o, set, supportCorners)
  IN IF Len(set) = 1 THEN [st EXCEPT !.validated = Append(@, cls)]
     ELSE IF Len(set) = 0 THEN st
     ELSE IF f.All
       THEN Merge(st, cls, set, <<>>, "all",
                  PatchedName(o[cls], getBodyByShorthand(targetGroups, parentType, "all")))
     ELSE IF f.Y \/ f.X
       THEN LET xOrY == IF f.X THEN "x" ELSE "y"
                toBeReplaced == ByCode(o, set, IF f.X THEN {"l", "r"} ELSE {"t", "b"})
                toBeKept == ByCode(o, set, IF f.Y THEN {"l", "r"} ELSE {"t", "b"})
            IN Merge(st, cls, toBeReplaced, toBeKept, xOrY,
                     PatchedName(o[cls], getBodyByShorthand(targetGroups, parentType, xOrY)))
     ELSE IF supportCorners /\ (f.T \/ f.R \/ f.B \/ f.L)
       THEN LET side == IF f.T THEN "t" ELSE IF f.R THEN "r" ELSE IF f.B THEN "b" ELSE "l"
                toBeReplaced ==
                  ByCode(o, set, IF f.T THEN {"tl", "tr"} ELSE IF f.R THEN {"tr", "br"}
                                 ELSE IF f.B THEN {"bl", "br"} ELSE {"tl", "bl"})
                toBeKept ==
                  ByCode(o, set, IF f.T THEN {"bl", "br"} ELSE IF f.R THEN {"tl", "bl"}
                                 ELSE IF f.B THEN {"tl", "tr"} ELSE {"tr", "br"})
            IN Merge(st, cls, toBeReplaced, toBeKept, side,
                     PatchedName(o[cls], getBodyByShorthand(targetGroups, parentType, side)))
     ELSE [st EXCEPT !.validated = @ \o set]

RECURSIVE FamilyLoop(_, _, _, _)
\* sameType.forEach((cls) => ...): lines 203-293, from position k on
FamilyLoop(st, sameType, k, parentType) ==
  IF k > Len(sameType) THEN st
  ELSE LET cls == sameType[k]
           key == st.objects[cls].variants \o st.objects[cls].value
       IN IF Includes(st.checkedVariantsValue, key)
          THEN FamilyLoop(st, sameType, k + 1, parentType)
          ELSE FamilyLoop(
                 Resolve([st EXCEPT !.checkedVariantsValue = Append(@, key)],
                         sameType, cls, parentType),
                 sameType, k + 1, parentType)

RECURSIVE ParsedLoop(_, _)
\* parsed.forEach((classname) => ...): lines 194-295, from position i on
ParsedLoop(st, i) ==
  IF i > Len(st.objects) THEN st
  ELSE LET classname == st.objects[i]
       IN IF classname.parentType = ""
          THEN ParsedLoop([st EXCEPT !.validated = Append(@, i)], i + 1)
          ELSE IF ~Includes(st.checkedGroups, classname.parentType)
          THEN LET sameType ==
                     Filter([k \in 1..Len(st.objects) |-> k],
                            {k \in 1..Len(st.objects) :
                               st.objects[k].parentType = classname.parentType})
               IN ParsedLoop(
                    FamilyLoop([st EXCEPT !.checkedGroups = Append(@, classname.parentType),
                                          !.checkedVariantsValue = <<>>],
                               sameType, 1, classname.parentType),
                    i + 1)
          ELSE ParsedLoop(st, i + 1)

\* The whole merge pass over the descriptors the parser returned
MergeResult(descs) ==
  ParsedLoop([objects |-> descs, validated |-> <<>>, troubles |-> <<>>,
              checkedGroups |-> <<>>, checkedVariantsValue |-> <<>>], 1)

----------------------------------------------------------------------------
(* State of the analysis of one source location *)

VARIABLES
  arg,                      \* the node under analysis: kind, line mode, prefix, suffix, range
  originalClassNamesValue,  \* the extracted text
  classNames,               \* the tokens of the text, each with the parser's reading of it
  pass,                     \* 1: first run on the location, 2: run on the fixed text
  pc,                       \* "start", "merged", "done"
  parsed,                   \* the descriptors as the parser returned them
  objects,                  \* the same descriptor objects after the merge pass
  validated,                \* references (positions in objects) pushed to validated
  troubles,                 \* [toBeReplaced, patchedName] pairs
  validatedClassNamesValue, \* the reassembled text
  reports                   \* context.report calls, with the text their fix returned

vars == <<arg, originalClassNamesValue, classNames, pass, pc, parsed, objects,
          validated, troubles, validatedClassNamesValue, reports>>

\* trim is set for a Literal argument only (line 145)
TrimOf(a) == a.type = "Literal"

\* before = classNames.shift() when the segment is multi-line and the first
\* token is white space only (lines 170-174)
Before(a, names) ==
  IF ~a.isSingleLine /\ Len(names) > 0 /\ SpacesOnly(TokenRaw(names[1]))
  THEN TokenRaw(names[1]) ELSE NULL

AfterShift(a, names) ==
  IF Before(a, names) # NULL THEN Tail(names) ELSE names

\* after = classNames.pop() when the last remaining token is white space only
\* (lines 175-177); on an empty array classNames[-1] is undefined, and the
\* test of "undefined" fails
After(a, names) ==
  LET rest == AfterShift(a, names)
  IN IF ~a.isSingleLine /\ Len(rest) > 0 /\ SpacesOnly(TokenRaw(rest[Len(rest)]))
     THEN TokenRaw(rest[Len(rest)]) ELSE NULL

\* classNames once before and after are set aside
ClassList(a, names) ==
  LET rest == AfterShift(a, names)
  IN IF After(a, names) # NULL THEN SubSeq(rest, 1, Len(rest) - 1) ELSE rest

\* lines 180-183
EarlyReturn ==
  /\ pc = "start"
  /\ Len(ClassList(arg, classNames)) <= 1
  /\ pc' = "done"
  /\ UNCHANGED <<arg, originalClassNamesValue, classNames, pass, parsed, objects,
                 validated, troubles, validatedClassNamesValue, reports>>

\* lines 185-295
MergePass ==
  /\ pc = "start"
  /\ Len(ClassList(arg, classNames)) > 1
  /\ LET list == ClassList(arg, classNames)
         descs == [i \in 1..Len(list) |-> parseClassname(list[i], i - 1)]
         res == MergeResult(descs)
     IN /\ parsed' = descs
        /\ objects' = res.objects
        /\ validated' = res.validated
        /\ troubles' = res.troubles
  /\ pc' = "merged"
  /\ UNCHANGED <<arg, originalClassNamesValue, classNames, pass,
                 validatedClassNamesValue, reports>>

\* lines 297-306: the reassembled text, before any prefix or suffix
Union(a, names, objs, refs) ==
  LET union == [k \in 1..Len(refs) |->
                  objs[refs[k]].leading \o objs[refs[k]].name \o objs[refs[k]].trailing]
      withBefore == IF Before(a, names) # NULL THEN <<Before(a, names)>> \o union ELSE union
      withAfter == IF After(a, names) # NULL THEN Append(withBefore, After(a, names))
                   ELSE withBefore
  IN Join(withAfter, IF a.isSingleLine THEN " " ELSE "\n")

\* line 307
OriginalPatched(a, original) == IF a.isSingleLine THEN Trim(original) ELSE original

\* lines 122-161: the range the fix replaces
FixRange(a) ==
  IF a.type = "TemplateElement" THEN a.range
  ELSE <<a.range[1] + 1, a.range[2] - 1>>

\* Mutation: every trouble is an issue, also one with nothing to replace.
AllIssues(trs) == trs

\* troubles.filter((trouble) => trouble[0].length): lines 308-312
ValidIssues(trs) ==
  Filter(trs, {t \in {trs[k] : k \in 1..Len(trs)} : Len(t.names) > 0})

RECURSIVE ReportLoop(_, _, _, _, _)
\* .forEach((issue) => ...): lines 313-328. The host calls the fix function
\* while context.report runs, so a report carries the text as it is then.
ReportLoop(a, original, issues, k, acc) ==
  IF k > Len(issues) THEN acc
  ELSE IF OriginalPatched(a, original) # acc.text
       THEN LET text == (a.prefix \o acc.text) \o a.suffix
            IN ReportLoop(a, original, issues, k + 1,
                 [text |-> text,
                  reports |-> Append(acc.reports,
                     [classnames |-> Join(issues[k].names, ", "),
                      shorthand |-> issues[k].shorthand,
                      subsumed |-> issues[k].names,
                      range |-> FixRange(a),
                      text |-> text])])
       ELSE ReportLoop(a, original, issues, k + 1, acc)

\* lines 297-328
Report ==
  /\ pc = "merged"
  /\ LET out == ReportLoop(arg, originalClassNamesValue, ValidIssues(troubles), 1,
                           [text |-> Union(arg, classNames, objects, validated),
                            reports |-> <<>>])
     IN /\ validatedClassNamesValue' = out.text
        /\ reports' = out.reports
  /\ pc' = "done"
  /\ UNCHANGED <<arg, originalClassNamesValue, classNames, pass, parsed, objects,
                 validated, troubles>>

\* A white space token set aside as before or after
SpaceToken(raw) ==
  [name |-> raw, leading |-> "", trailing |-> "", parentType |-> "",
   shorthand |-> "", value |-> "", variants |-> ""]

\* The host applies the fix of a finding and runs the rule again on the
\* location (lines 335-367): the text is now the reassembled one and its
\* tokens are the descriptors that were written into it.
Rerun ==
  /\ pc = "done"
  /\ pass = 1
  /\ reports # <<>>
  /\ LET out == [k \in 1..Len(validated) |->
                   [name |-> objects[validated[k]].name,
                    leading |-> objects[validated[k]].leading,
                    trailing |-> objects[validated[k]].trailing,
                    parentType |-> objects[validated[k]].parentType,
                    shorthand |-> objects[validated[k]].shorthand,
                    value |-> objects[validated[k]].value,
                    variants |-> objects[validated[k]].variants]]
         b == Before(arg, classNames)
         a == After(arg, classNames)
     IN /\ classNames' = (IF b # NULL THEN <<SpaceToken(b)>> ELSE <<>>) \o out
                           \o (IF a # NULL THEN <<SpaceToken(a)>> ELSE <<>>)
        /\ originalClassNamesValue' = Union(arg, classNames, objects, validated)
  /\ pass' = 2
  /\ pc' = "start"
  /\ parsed' = <<>>
  /\ objects' = <<>>
  /\ validated' = <<>>
  /\ troubles' = <<>>
  /\ validatedClassNamesValue' = ""
  /\ reports' = <<>>
  /\ UNCHANGED arg

Next == EarlyReturn \/ MergePass \/ Report \/ Rerun

----------------------------------------------------------------------------
(* Inputs *)

\* A class of a family, named as Tailwind names it
Cls(variants, parentType, shorthand, value) ==
  [name |-> PatchedName([variants |-> variants, value |-> value],
                        getBodyByShorthand(targetGroups, parentType, shorthand)),
   leading |-> "", trailing |-> "", parentType |-> parentType,
   shorthand |-> shorthand, value |-> value, variants |-> variants]

\* A class the taxonomy does not know: parentType is empty
Plain(name) ==
  [name |-> name, leading |-> "", trailing |-> "", parentType |-> "",
   shorthand |-> "", value |-> "", variants |-> ""]

\* Two families, two variants, values of either sign, passthrough classes
MixedClasses ==
  { Cls("", "Margin", "t", "1"), Cls("", "Margin", "b", "1"),
    Cls("", "Margin", "l", "1"), Cls("", "Margin", "r", "1"),
    Cls("md:", "Margin", "b", "1"), Cls("", "Margin", "b", "-1"),
    Cls("", "Margin", "t", "-1"),
    Cls("", "Border Radius", "tl", "lg"), Cls("", "Border Radius", "tr", "lg"),
    Plain("flex") }

\* Every directional code of the corner-supporting family
RadiusClasses ==
  { Cls("", "Border Radius", c, "lg") :
      c \in {"all", "t", "r", "b", "l", "tl", "tr", "br", "bl"} }
  \cup { Cls("", "Border Radius", "all", ""), Plain("flex") }

\* Every directional code of a family of sides and axes
SpacingClasses ==
  { Cls("", "Margin", c, "1") : c \in {"all", "x", "y", "t", "r", "b", "l"} }
  \cup { Cls("md:", "Margin", "t", "1"), Plain("flex") }

\* A few classes, for the runs that vary the kind of node and its layout
TextClasses ==
  { Cls("", "Margin", "t", "1"), Cls("", "Margin", "b", "1"),
    Cls("", "Margin", "x", "1"), Cls("md:", "Margin", "t", "1"),
    Cls("md:", "Margin", "b", "1"), Plain("flex") }

\* How the text of a location is laid out around its classes
AttributeLine ==
  [arg |-> [type |-> "Attribute", isSingleLine |-> TRUE, prefix |-> "", suffix |-> "",
            range |-> <<10, 60>>],
   padL |-> "", padR |-> "", indent |-> "", outer |-> FALSE]

LiteralLine ==
  [arg |-> [type |-> "Literal", isSingleLine |-> TRUE, prefix |-> "", suffix |-> "",
            range |-> <<10, 60>>],
   padL |-> " ", padR |-> " ", indent |-> "", outer |-> FALSE]

TemplateLine ==
  [arg |-> [type |-> "TemplateElement", isSingleLine |-> TRUE, prefix |-> "}",
            suffix |-> "${", range |-> <<10, 60>>],
   padL |-> "", padR |-> "", indent |-> "", outer |-> FALSE]

TemplateBlock ==
  [arg |-> [type |-> "TemplateElement", isSingleLine |-> FALSE, prefix |-> "}",
            suffix |-> "${", range |-> <<10, 60>>],
   padL |-> "", padR |-> "", indent |-> "  ", outer |-> TRUE]

AttributeBlock ==
  [arg |-> [type |-> "Attribute", isSingleLine |-> FALSE, prefix |-> "", suffix |-> "",
            range |-> <<10, 60>>],
   padL |-> "", padR |-> "", indent |-> "  ", outer |-> FALSE]

AllLayouts == {AttributeLine, LiteralLine, TemplateLine, TemplateBlock, AttributeBlock}

\* The state when parseForShorthandCandidates has extracted the text of a
\* location (line 165): any list of at most MaxLen classes, in any layout.
\* A multi-line text has a line break; white space around a single-line text
\* is only drawn where the tokens are taken from the trimmed text.
Start(Classes, Layouts) ==
  \E lay \in Layouts, n \in 0..MaxLen :
    \E seq \in [1..n -> Classes] :
      /\ lay.arg.isSingleLine \/ lay.outer \/ n >= 2
      /\ TrimOf(lay.arg) \/ (lay.padL = "" /\ lay.padR = "")
      /\ LET toks == [i \in 1..n |-> [seq[i] EXCEPT !.leading = lay.indent]]
             names == IF lay.outer
                      THEN (<<SpaceToken("")>> \o toks) \o <<SpaceToken("")>>
                      ELSE toks
             raws == [k \in 1..Len(names) |-> TokenRaw(names[k])]
         IN /\ classNames = names
            /\ originalClassNamesValue =
                 (lay.padL \o Join(raws, IF lay.arg.isSingleLine THEN " " ELSE "\n"))
                   \o lay.padR
      /\ arg = lay.arg
      /\ pass = 1
      /\ pc = "start"
      /\ parsed = <<>>
      /\ objects = <<>>
      /\ validated = <<>>
      /\ troubles = <<>>
      /\ validatedClassNamesValue = ""
      /\ reports = <<>>

Init == Start(MixedClasses, {AttributeLine})

InitRadius == Start(RadiusClasses, {AttributeLine})

InitSpacing == Start(SpacingClasses, {AttributeLine})

InitText == Start(TextClasses, AllLayouts)

Spec == Init /\ [][Next]_vars

SpecRadius == InitRadius /\ [][Next]_vars

SpecSpacing == InitSpacing /\ [][Next]_vars

SpecText == InitText /\ [][Next]_vars

----------------------------------------------------------------------------
(* Vocabulary of the properties *)

\* The merge pass has run on the current class list
Merged == pc \in {"merged", "done"} /\ parsed # <<>>

\* A finding has been reported for the location: its fix text is what the
\* user gets
Reported == pc = "done" /\ reports # <<>>

Family(i) == parsed[i].parentType

\* The candidate set of descriptor i: same parentType, variants and value
SetOf(i) ==
  {j \in 1..Len(parsed) : /\ parsed[j].parentType = parsed[i].parentType
                          /\ parsed[j].variants = parsed[i].variants
                          /\ parsed[j].value = parsed[i].value}

\* The positions of the output that hold a member of a set of objects
OutPositions(set) == {k \in 1..Len(validated) : validated[k] \in set}

\* The names of the output descriptors of a set, in output order
OutNames(set) ==
  LET refs == Filter(validated, set)
  IN [k \in 1..Len(refs) |-> objects[refs[k]].name]

Corners == {"tl", "tr", "br", "bl"}

Sides == {"t", "r", "b", "l"}

\* The corners of a side
SideCorners(side) ==
  CASE side = "t" -> {"tl", "tr"}
    [] side = "r" -> {"tr", "br"}
    [] side = "b" -> {"bl", "br"}
    [] side = "l" -> {"tl", "bl"}

\* What a directional code styles: corners for a corner-supporting family,
\* sides for any other
Dirs(parentType, code) ==
  IF parentType = "Border Radius"
  THEN CASE code \in Corners -> {code}
         [] code \in Sides -> SideCorners(code)
         [] code \in {"x", "y", "all"} -> Corners
         [] OTHER -> {}
  ELSE CASE code \in Sides -> {code}
         [] code = "x" -> {"l", "r"}
         [] code = "y" -> {"t", "b"}
         [] code = "all" -> Sides
         [] OTHER -> {}

AllDirs(parentType) == IF parentType = "Border Radius" THEN Corners ELSE Sides

\* What the members of the candidate set of i style in the input ...
InCover(i) == UNION {Dirs(Family(i), parsed[j].shorthand) : j \in SetOf(i)}

\* ... and what the descriptors pushed to the output for that set style
OutCover(i) ==
  UNION {Dirs(Family(i), objects[validated[k]].shorthand) : k \in OutPositions(SetOf(i))}

----------------------------------------------------------------------------
(* C1 *)

\* C1 (non-destructive coverage): for every candidate set, the directions
\* styled by the descriptors written to the output equal the directions styled
\* by the members of the set in the input. Stated for the locations where a
\* finding is reported, whose output is the text of the fix.
C1_CoveragePreserved ==
  Reported =>
    \A i \in 1..Len(parsed) : Family(i) # "" => OutCover(i) = InCover(i)

----------------------------------------------------------------------------
(* C2 *)

\* The side the resolver is to choose among three corners: the first of
\* top, right, bottom, left whose two corners are present
ChosenSide(codes) ==
  IF SideCorners("t") \subseteq codes THEN "t"
  ELSE IF SideCorners("r") \subseteq codes THEN "r"
  ELSE IF SideCorners("b") \subseteq codes THEN "b" ELSE "l"

\* The candidate set of i is exactly three distinct corners of Border Radius
ThreeCorners(i) ==
  /\ Family(i) = "Border Radius"
  /\ Cardinality(SetOf(i)) = 3
  /\ \A j \in SetOf(i) : parsed[j].shorthand \in Corners
  /\ Cardinality({parsed[j].shorthand : j \in SetOf(i)}) = 3

\* C2 (partial coverage): three of the four corners, in any order, give
\* exactly two descriptors: the side merge of the two corners of the chosen
\* side, and the remaining corner under its original name.
C2_ThreeCornersGiveSideAndCorner ==
  Merged =>
    \A i \in 1..Len(parsed) :
      ThreeCorners(i) =>
        LET codes == {parsed[j].shorthand : j \in SetOf(i)}
            side == ChosenSide(codes)
            rest == CHOOSE j \in SetOf(i) : parsed[j].shorthand \notin SideCorners(side)
            sideName == Cls(parsed[i].variants, "Border Radius", side, parsed[i].value).name
        IN OutNames(SetOf(i)) \in { <<sideName, parsed[rest].name>>,
                                    <<parsed[rest].name, sideName>> }

----------------------------------------------------------------------------
(* C3 *)

SameKey(i, j) ==
  /\ parsed[i].parentType = parsed[j].parentType
  /\ parsed[i].variants = parsed[j].variants
  /\ parsed[i].value = parsed[j].value

\* C3 (no cross-contamination): the names a finding subsumes are the names of
\* descriptors that share parentType, variants and value with each other and
\* with the representative that is renamed; a descriptor that shares these
\* three with no other descriptor is in the output once, unchanged.
C3_NoCrossContamination ==
  Merged =>
    /\ \A t \in 1..Len(troubles) :
         /\ Len(troubles[t].names) = Len(troubles[t].from)
         /\ \A k \in 1..Len(troubles[t].from) :
              /\ troubles[t].names[k] = parsed[troubles[t].from[k]].name
              /\ SameKey(troubles[t].from[k], troubles[t].rep)
              /\ \A m \in 1..Len(troubles[t].from) :
                   SameKey(troubles[t].from[k], troubles[t].from[m])
    /\ \A i \in 1..Len(parsed) :
         (Family(i) # "" /\ SetOf(i) = {i}) =>
           /\ objects[i] = parsed[i]
           /\ Cardinality(OutPositions({i})) = 1
    /\ \A i \in 1..Len(parsed) :
         objects[i] # parsed[i] => \E t \in 1..Len(troubles) : troubles[t].rep = i

\* A merge happened next to a descriptor of the same family that differs in
\* variants or value only, and that descriptor is in the output unchanged
C3_Witness ==
  /\ Merged
  /\ \E t \in 1..Len(troubles) :
       /\ Len(troubles[t].names) >= 2
       /\ \E j \in 1..Len(parsed) :
            /\ parsed[j].parentType = parsed[troubles[t].rep].parentType
            /\ ~SameKey(j, troubles[t].rep)
            /\ parsed[j].shorthand \in {parsed[m].shorthand : m \in SetOf(troubles[t].rep)}
            /\ objects[j] = parsed[j]
            /\ Cardinality(OutPositions({j})) = 1

----------------------------------------------------------------------------
(* C4 *)

\* C4 (fix payload): every finding of a location replaces the same range by
\* the same text, prefix + reassembled class list + suffix, the prefix and
\* the suffix attached once however many findings there are.
C4_OnePayload ==
  pc = "done" =>
    \A k \in 1..Len(reports) :
      /\ reports[k].range = FixRange(arg)
      /\ reports[k].text =
           (arg.prefix \o Union(arg, classNames, objects, validated)) \o arg.suffix

----------------------------------------------------------------------------
(* C5 *)

\* C5 (passthrough): a descriptor with an empty parentType is in the output
\* once, with name, leading and trailing unchanged, and on the same side of
\* every other output descriptor as in the input. Stated for the locations
\* where a finding is reported, whose output is the text of the fix.
C5_PassthroughInPlace ==
  Reported =>
    \A i \in 1..Len(parsed) :
      Family(i) = "" =>
        /\ objects[i] = parsed[i]
        /\ Cardinality(OutPositions({i})) = 1
        /\ \A k, m \in 1..Len(validated) :
             (validated[k] = i /\ validated[m] # i) =>
               ((m < k) <=> (validated[m] < i))

----------------------------------------------------------------------------
(* C6 *)

\* C6 (finding emission): a finding is reported only if it subsumes at least
\* one name and the reassembled text differs from the original text (trimmed
\* for a single-line segment); a list of zero or one class reports nothing.
C6_EmissionGuard ==
  pc = "done" =>
    /\ \A k \in 1..Len(reports) :
         /\ Len(reports[k].subsumed) > 0
         /\ Union(arg, classNames, objects, validated)
              # OriginalPatched(arg, originalClassNamesValue)
    /\ Len(ClassList(arg, classNames)) <= 1 => reports = <<>>

\* A location with a finding that is reported and a merge that subsumed no
\* name and is not
C6_Witness ==
  /\ pc = "done"
  /\ reports # <<>>
  /\ Len(reports) < Len(troubles)
  /\ \E t \in 1..Len(troubles) : troubles[t].names = <<>>

----------------------------------------------------------------------------
(* C7 *)

\* C7 (idempotence): the run on the class list a fix produced reports no
\* finding and reproduces that class list.
C7_FixedPoint ==
  (pass = 2 /\ pc = "done") =>
    /\ reports = <<>>
    /\ parsed # <<>> =>
         [k \in 1..Len(validated) |-> objects[validated[k]].name]
           = [k \in 1..Len(parsed) |-> parsed[k].name]

----------------------------------------------------------------------------
(* C8 *)

\* C8 (minimality): a candidate set whose members together style all four
\* directions leaves one descriptor in the output, named by the "all" body
\* of the family.
C8_FullCoverIsOneAll ==
  Merged =>
    \A i \in 1..Len(parsed) :
      (Family(i) # "" /\ InCover(i) = AllDirs(Family(i))) =>
        OutNames(SetOf(i))
          = << Cls(parsed[i].variants, Family(i), "all", parsed[i].value).name >>

----------------------------------------------------------------------------
(* C9 *)

\* C9 (output order): the reassembled text lists the retained and merged
\* descriptors in the order they had in the input: no descriptor is written
\* before one that preceded it in the input. (A descriptor written twice is
\* the matter of C1 and is not counted here.) Stated for the locations where
\* a finding is reported, whose output is the text of the fix.
C9_InputOrderKept ==
  Reported =>
    \A k, m \in 1..Len(validated) : k < m => validated[k] <= validated[m]

----------------------------------------------------------------------------
(* C10 *)

\* The directional code the resolver selects for the candidate set of i
SelectedCode(i) ==
  LET corners == Family(i) \in {"Border Radius"}
      f == Flags(parsed, Filter([k \in 1..Len(parsed) |-> k], SetOf(i)), corners)
  IN IF f.All THEN "all"
     ELSE IF f.X THEN "x"
     ELSE IF f.Y THEN "y"
     ELSE IF corners /\ f.T THEN "t"
     ELSE IF corners /\ f.R THEN "r"
     ELSE IF corners /\ f.B THEN "b"
     ELSE IF corners /\ f.L THEN "l"
     ELSE "none"

\* C10 (empty lookup means no merge): when the family has no body for the
\* selected code, the candidate set is not merged: no finding is recorded,
\* no member is renamed and every member is kept.
C10_EmptyBodyNoMerge ==
  Merged =>
    \A i \in 1..Len(parsed) :
      ( /\ Family(i) # ""
        /\ Cardinality(SetOf(i)) >= 2
        /\ SelectedCode(i) # "none"
        /\ getBodyByShorthand(targetGroups, Family(i), SelectedCode(i)) = "" ) =>
          /\ \A t \in 1..Len(troubles) : troubles[t].rep \notin SetOf(i)
          /\ \A j \in SetOf(i) :
               objects[j] = parsed[j] /\ Cardinality(OutPositions({j})) = 1

====
